---- MODULE Spec2Model ----
(***************************************************************************)
(* A model of the bl602-re object comparison scripts:                      *)
(*   script/headerdiff.py  Definition Context, debug-info type             *)
(*                         reconstruction, symbol linkage table            *)
(*   script/funcdiff.py    per-object similarity aggregation, report driver*)
(* Each component has its own specification (SpecCtx, SpecType, SpecSym,   *)
(* SpecDiff, SpecMain); the variables of the other components stay idle.   *)
(***************************************************************************)
EXTENDS Integers, Sequences, FiniteSets, TLC

VARIABLES
    funcs,      \* Context.funcs: function name -> [f: CFunction instance, defined: BOOLEAN]
    fobjs,      \* the CFunction instances created so far; an instance is its index
    calls,      \* history: the Context.decl_func / Context.def_func calls made, in order
    fret,       \* the instance returned by the last die_to_ctype_or_func (0: none yet)
    ctx_pc,     \* "run", "fatal" once the ODR ValueError has been raised, "failed" once
                \* die_to_funclike_args has raised KeyError
    entry,      \* <<the function entry die_to_ctype_or_func has just processed, with the
                \* context it found>>, empty when the last step was something else
    unit,       \* the compilation unit: its debug-info entries (DIEs), by offset
    heap,       \* the CType instances created so far; an instance is its index
    cache,      \* cu.ctype_cache: DIE offset -> instance
    results,    \* DIE offset -> what the last top-level die_to_ctype on it returned (0: CVoid)
    ovf,        \* TRUE once a reconstruction ran out of stack (RecursionError)
    symtab,     \* the raw symbol table: a sequence of records [st_name, st_info]
    has_static_cache,   \* hasattr(symtab, '_static_cache')
    static_cache,       \* symtab._static_cache: name -> is the symbol STB_LOCAL
    sret,       \* what the last is_static returned: <<in_obj, static>>
    vendor_sections,    \* the vendor object's disassembly, one record per section
    re_sections,        \* the candidate object's disassembly
    outcome,    \* per function name, what comparing the two bodies gives
    dres,       \* <<what diff_objects returned>>, empty before the call
    pc,         \* funcdiff.main: where the run is
    args,       \* the parsed command line
    out_file,   \* the report file on disk: [exists, data]
    out_open,   \* TRUE once the report file has been opened for writing
    todo,       \* the objects still to be compared
    fdie,       \* the function entry handed to die_to_funclike_args: [tag, named, ret, children]
    fres        \* <<what die_to_funclike_args did>>, empty before the call

ctx_vars == <<funcs, fobjs, calls, fret, ctx_pc, entry>>

type_vars == <<unit, heap, cache, results, ovf>>

sym_vars == <<symtab, has_static_cache, static_cache, sret>>

diff_vars == <<vendor_sections, re_sections, outcome, dres>>

main_vars == <<pc, args, out_file, out_open, todo>>

fun_vars == <<fdie, fres>>

vars == <<ctx_vars, type_vars, sym_vars, diff_vars, main_vars, fun_vars>>

\* what a step of one component leaves alone
OnlyCtx == UNCHANGED <<type_vars, sym_vars, diff_vars, main_vars, fun_vars>>
OnlyType == UNCHANGED <<ctx_vars, sym_vars, diff_vars, main_vars, fun_vars>>
OnlySym == UNCHANGED <<ctx_vars, type_vars, diff_vars, main_vars, fun_vars>>
OnlyDiff == UNCHANGED <<ctx_vars, type_vars, sym_vars, main_vars, fun_vars>>
OnlyMain == UNCHANGED <<ctx_vars, type_vars, sym_vars, diff_vars, fun_vars>>
OnlyFun == UNCHANGED <<ctx_vars, type_vars, sym_vars, diff_vars, main_vars>>

(***************************************************************************)
(* Bounds                                                                  *)
(***************************************************************************)
\* the number of function entries processed / Context calls made in one run
MaxCalls == 3

FuncNames == {"f", "g"}
\* what die_to_funclike_args yields for a function: (return type, args);
\* "anon" is void(int) with an unnamed parameter, "x" is void(int x)
Sigs == {"anon", "x"}

(***************************************************************************)
(* Definition Context (headerdiff.py, class Context)                       *)
(***************************************************************************)
\* Context.__init__: an empty funcs dictionary
ContextInit == <<>>

\* CFunction(...): a fresh instance appended to the instances, identified by its index
NewCFunction(objs, name, sig, static) ==
    Append(objs, [name |-> name, sig |-> sig, static |-> static])

\* dict assignment d[k] = v
DictSet(d, k, v) == [x \in (DOMAIN d) \cup {k} |-> IF x = k THEN v ELSE d[x]]

\* (mutation) the context never finds the name
func_forgets(fs, func_name) == 0

\* Context.func: the recorded instance, or 0 for None
func(fs, func_name) == IF func_name \in DOMAIN fs THEN fs[func_name].f ELSE 0

\* Context.decl_func: self.funcs[func.name] = (func, False)
decl_func(fs, objs, id) == DictSet(fs, objs[id].name, [f |-> id, defined |-> FALSE])

\* Context.def_func; yields [funcs, fobjs, raised].  The instance f kept by a
\* declaration-only record gets the definition's return type and arguments; the
\* (f, defined) tuple of the record itself is not reassigned.
def_func(fs, objs, id, inline) ==
    LET name == objs[id].name IN
    IF name \notin DOMAIN fs
    THEN [funcs |-> DictSet(fs, name, [f |-> id, defined |-> TRUE]), fobjs |-> objs, raised |-> FALSE]
    ELSE IF fs[name].defined
         THEN [funcs |-> fs, fobjs |-> objs, raised |-> ~inline]
         ELSE [funcs |-> fs,
               fobjs |-> [objs EXCEPT ![fs[name].f].sig = objs[id].sig],
               raised |-> FALSE]

\* is_static's answers (in_obj, static): (True, True), (True, False), (False, False)
Linkages == {<<TRUE, TRUE>>, <<TRUE, FALSE>>, <<FALSE, FALSE>>}

\* one entry of the call history: the call, whether it raised, and the record the
\* context held for the name before the call (prev = 0: none)
CallRec(op, name, sig, inline, raised, fs) ==
    [op |-> op, name |-> name, sig |-> sig, inline |-> inline, raised |-> raised,
     prev |-> func(fs, name),
     prev_defined |-> IF name \in DOMAIN fs THEN fs[name].defined ELSE FALSE]

CtxRunning == ctx_pc = "run" /\ Len(calls) < MaxCalls /\ Len(fobjs) < MaxCalls

\* a caller invokes Context.decl_func with a new CFunction
CallDeclFunc(name, sig) ==
    /\ CtxRunning
    /\ LET objs == NewCFunction(fobjs, name, sig, FALSE)
           id == Len(objs)
       IN /\ funcs' = decl_func(funcs, objs, id)
          /\ fobjs' = objs
          /\ calls' = Append(calls, CallRec("decl", name, sig, FALSE, FALSE, funcs))
    /\ entry' = <<>>
    /\ UNCHANGED <<fret, ctx_pc>>
    /\ OnlyCtx

\* a caller invokes Context.def_func with a new CFunction
CallDefFunc(name, sig, inline) ==
    /\ CtxRunning
    /\ LET objs == NewCFunction(fobjs, name, sig, FALSE)
           id == Len(objs)
           r == def_func(funcs, objs, id, inline)
       IN /\ funcs' = r.funcs
          /\ fobjs' = r.fobjs
          /\ calls' = Append(calls, CallRec("def", name, sig, inline, r.raised, funcs))
          /\ ctx_pc' = IF r.raised THEN "fatal" ELSE "run"
    /\ entry' = <<>>
    /\ UNCHANGED fret
    /\ OnlyCtx

\* die_to_funclike_args on the named DW_TAG_subprogram entry whose signature is
\* sig: the parameter without DW_AT_name of "anon" raises KeyError
funclike_raises(sig) == sig = "anon"

\* the function entry being processed and the context it is processed in
Entry(name, sig, link, inline) ==
    [name |-> name, sig |-> sig, in_obj |-> link[1], static |-> link[2], inline |-> inline,
     funcs |-> funcs, fobjs |-> fobjs]

\* die_to_funclike_args raises: the KeyError leaves die_to_ctype_or_func, nothing
\* is returned
FunclikeRaises ==
    /\ ctx_pc' = "failed"
    /\ UNCHANGED <<funcs, fobjs, calls, fret>>

\* die_to_ctype_or_func on a DW_TAG_subprogram entry named name, whose symbol
\* classification is link = (in_obj, static) and which has DW_AT_inline iff inline
die_to_ctype_or_func(name, sig, link, inline) ==
    /\ CtxRunning
    /\ OnlyCtx
    /\ entry' = <<Entry(name, sig, link, inline)>>
    /\ IF link[2]
       THEN \* static: a fresh instance, the context is not touched
            IF funclike_raises(sig) THEN FunclikeRaises
            ELSE /\ fobjs' = NewCFunction(fobjs, name, sig, TRUE)
                 /\ fret' = Len(fobjs')
                 /\ UNCHANGED <<funcs, calls, ctx_pc>>
       ELSE IF link[1]
       THEN \* in the object: define
            IF funclike_raises(sig) THEN FunclikeRaises
            ELSE LET objs == NewCFunction(fobjs, name, sig, FALSE)
                     id == Len(objs)
                     r == def_func(funcs, objs, id, inline)
                 IN /\ funcs' = r.funcs
                    /\ fobjs' = r.fobjs
                    /\ calls' = Append(calls, CallRec("def", name, sig, inline, r.raised, funcs))
                    /\ ctx_pc' = IF r.raised THEN "fatal" ELSE "run"
                    /\ fret' = IF r.raised THEN fret ELSE id
       ELSE IF func(funcs, name) # 0
       THEN \* known to the context: the recorded instance
            /\ fret' = func(funcs, name)
            /\ UNCHANGED <<funcs, fobjs, calls, ctx_pc>>
       ELSE \* unknown: declare
            IF funclike_raises(sig) THEN FunclikeRaises
            ELSE LET objs == NewCFunction(fobjs, name, sig, FALSE)
                     id == Len(objs)
                 IN /\ funcs' = decl_func(funcs, objs, id)
                    /\ fobjs' = objs
                    /\ calls' = Append(calls, CallRec("decl", name, sig, FALSE, FALSE, funcs))
                    /\ fret' = id
                    /\ UNCHANGED ctx_pc

IdleType ==
    /\ unit = [len |-> 0, die |-> <<>>]
    /\ heap = <<>>
    /\ cache = <<>>
    /\ results = <<>>
    /\ ovf = FALSE

IdleSym ==
    /\ symtab = <<>>
    /\ has_static_cache = FALSE
    /\ static_cache = <<>>
    /\ sret = <<FALSE, FALSE>>

IdleDiff ==
    /\ vendor_sections = <<>>
    /\ re_sections = <<>>
    /\ outcome = <<>>
    /\ dres = <<>>

IdleMain ==
    /\ pc = "idle"
    /\ args = [diff_objects |-> FALSE, patterns_or_dirs |-> <<>>, old_report |-> FALSE,
               libs |-> <<>>, objs |-> <<>>]
    /\ out_file = [exists |-> FALSE, data |-> <<>>]
    /\ out_open = FALSE
    /\ todo = <<>>

IdleFun ==
    /\ fdie = [tag |-> "DW_TAG_subprogram", named |-> FALSE, ret |-> 0, children |-> <<>>]
    /\ fres = <<>>

IdleCtx ==
    /\ funcs = ContextInit
    /\ fobjs = <<>>
    /\ calls = <<>>
    /\ fret = 0
    /\ ctx_pc = "run"
    /\ entry = <<>>

InitCtx == IdleCtx /\ IdleType /\ IdleSym /\ IdleDiff /\ IdleMain /\ IdleFun

NextCtx ==
    \/ \E name \in FuncNames, sig \in Sigs : CallDeclFunc(name, sig)
    \/ \E name \in FuncNames, sig \in Sigs, inline \in BOOLEAN : CallDefFunc(name, sig, inline)
    \/ \E name \in FuncNames, sig \in Sigs, link \in Linkages, inline \in BOOLEAN :
          die_to_ctype_or_func(name, sig, link, inline)

SpecCtx == InitCtx /\ [][NextCtx]_vars

(***************************************************************************)
(* Claims about the Definition Context                                     *)
(***************************************************************************)
NonInlineDef(c, name) == c.op = "def" /\ ~c.inline /\ c.name = name

LastCall == calls[Len(calls)]

\* C1: for every name and every sequence of declare/define calls, the second
\* non-inline define of the name raises the ODR violation (also after declare,
\* define, define).
C1_SecondDefineRaises ==
    \A i \in 1..Len(calls) : \A j \in 1..(i - 1) :
        (NonInlineDef(calls[i], calls[i].name) /\ NonInlineDef(calls[j], calls[i].name))
            => calls[i].raised

\* C2: a sequence of define calls for one name holding exactly one non-inline
\* definition never raises the ODR violation, whatever the order: a define call
\* of a name that was only ever defined raises only when an earlier non-inline
\* define of that name exists.
C2_OneNonInlineNeverRaises ==
    \A i \in 1..Len(calls) :
        (/\ calls[i].raised
         /\ \A j \in 1..(i - 1) : calls[j].name = calls[i].name => calls[j].op = "def")
            => \E j \in 1..(i - 1) : NonInlineDef(calls[j], calls[i].name)

\* C3: define over a declaration-only record keeps the record's instance, overwrites
\* its return type and parameters with the definition's and marks the record defined.
C3_DefinePromotesDeclaration ==
    (/\ Len(calls) > 0
     /\ LastCall.op = "def"
     /\ LastCall.prev # 0
     /\ ~LastCall.prev_defined)
        => /\ funcs[LastCall.name].f = LastCall.prev
           /\ fobjs[LastCall.prev].sig = LastCall.sig
           /\ funcs[LastCall.name].defined

\* C4: declare never overwrites an existing record: when the context already holds a
\* record for the name, declare leaves its instance and its defined flag unchanged.
C4_DeclareNeverOverwrites ==
    (/\ Len(calls) > 0
     /\ LastCall.op = "decl"
     /\ LastCall.prev # 0)
        => /\ funcs[LastCall.name].f = LastCall.prev
           /\ funcs[LastCall.name].defined = LastCall.prev_defined

\* what the context holds: per recorded name the instance, whether it is defined,
\* and the instance's fields
Held(fs, objs) ==
    [n \in DOMAIN fs |-> [f |-> fs[n].f, defined |-> fs[n].defined, fields |-> objs[fs[n].f]]]

\* the entry is in the object with external linkage: it is defined
Defines(e) == e.in_obj /\ ~e.static

\* the entry is not in the object and the context has no record of its name: it
\* is declared
Declares(e) == ~e.in_obj /\ ~e.static /\ e.name \notin DOMAIN e.funcs

\* the entry is not in the object and the context has a record of its name
KnownAbsent(e) == ~e.in_obj /\ ~e.static /\ e.name \in DOMAIN e.funcs

\* the instance returned is one made by this call, static, and not in the context
FreshStatic(e) ==
    /\ Len(fobjs) = Len(e.fobjs) + 1
    /\ fret = Len(fobjs)
    /\ fobjs[fret] = [name |-> e.name, sig |-> e.sig, static |-> TRUE]
    /\ \A n \in DOMAIN funcs : funcs[n].f # fret

\* C12: processing a function entry changes the Definition Context (its records and
\* the instances they hold) only when the function is in the object and external
\* (define) or is absent from the object and its name is not yet recorded (declare).
\* A function with internal linkage leaves the context unchanged and, its
\* signature reconstructed, yields a fresh static instance.  A function absent
\* from the object whose name is recorded yields the very instance the context
\* holds; no record and no instance is added or replaced.
C12_ContextChangesOnlyOnDefineOrDeclare ==
    entry # <<>> =>
        LET e == entry[1] IN
        /\ Held(funcs, fobjs) # Held(e.funcs, e.fobjs) => (Defines(e) \/ Declares(e))
        /\ e.static =>
              /\ Held(funcs, fobjs) = Held(e.funcs, e.fobjs)
              /\ funcs = e.funcs
              /\ ctx_pc = "run" => FreshStatic(e)
        /\ KnownAbsent(e) =>
              /\ ctx_pc = "run"
              /\ fret = e.funcs[e.name].f
              /\ funcs = e.funcs
              /\ fobjs = e.fobjs

\* a static entry and an absent entry of a recorded name have both been processed:
\* the absent one last, after a static instance of the same name was made
C12_Witness ==
    /\ entry # <<>>
    /\ KnownAbsent(entry[1])
    /\ fret = funcs[entry[1].name].f
    /\ \E i \in DOMAIN fobjs : fobjs[i].static /\ fobjs[i].name = entry[1].name

(***************************************************************************)
(* Debug-Info Type Reconstructor (headerdiff.py, die_to_ctype)             *)
(***************************************************************************)
\* the number of debug-info entries of a compilation unit
NumDies == 3

\* the recursion depth at which a reconstruction is given up (RecursionError);
\* a reconstruction that terminates on NumDies entries stays below it
MaxDepth == 3 * NumDies + 3

\* the entry kinds die_to_ctype knows (DW_TAG_<kind>_type, DW_TAG_typedef)
Tags == {"pointer", "array", "structure", "union", "enumeration", "const", "volatile",
         "subroutine", "base", "typedef"}

Aggregates == {"structure", "union"}

\* a DIE: its tag, DW_AT_type (0: no such attribute), the DW_AT_upper_bound of its
\* subrange child (-1: none) and the DW_AT_type of each DW_TAG_member child (of
\* each DW_TAG_formal_parameter child, for a subroutine type)
Die(tag, type, ub, kids) == [tag |-> tag, type |-> type, ub |-> ub, kids |-> kids]

\* the entries offset i of a unit of len entries may hold; its references go to
\* the next offset, the last one's back to the first.  A struct has a second
\* member, of the type at offset 1; an array at offset 1 has no upper bound, one
\* at offset i > 1 has upper bound i - 2; a subroutine type at offset 1 has no
\* parameter, one at offset i > 1 has one parameter, of the type at offset 1
DiesAt(i, len) ==
    LET nxt == (i % len) + 1 IN
    {Die("base", 0, -1, <<>>), Die("enumeration", 0, -1, <<>>)}
    \cup {Die("pointer", ty, -1, <<>>) : ty \in {0, nxt}}
    \cup {Die(t, nxt, -1, <<>>) : t \in {"const", "volatile", "typedef"}}
    \cup {Die("subroutine", nxt, -1, IF i = 1 THEN <<>> ELSE <<1>>)}
    \cup {Die("array", nxt, i - 2, <<>>)}
    \cup {Die("union", 0, -1, <<nxt>>), Die("structure", 0, -1, <<nxt, 1>>)}

\* the offsets the entry at offset i refers to
Refs(u, i) == ({u.die[i].type} \cup {u.die[i].kids[k] : k \in DOMAIN u.die[i].kids}) \ {0}

\* the offsets reached from the offsets S in at most n steps that enter no struct
\* or union
RECURSIVE Reach(_, _, _)
Reach(u, S, n) ==
    LET T == {j \in S : u.die[j].tag \notin Aggregates} IN
    IF n = 0 THEN S ELSE Reach(u, S \cup UNION {Refs(u, j) : j \in T}, n - 1)

\* a C type graph has no cycle that avoids every struct and union
WellFormed(u) ==
    \A i \in 1..u.len : u.die[i].tag \in Aggregates \/ i \notin Reach(u, Refs(u, i), u.len)

RECURSIVE DieSeqs(_, _)
DieSeqs(i, len) ==
    IF i = 0 THEN {<<>>}
    ELSE {Append(ds, d) : ds \in DieSeqs(i - 1, len), d \in DiesAt(i, len)}

\* the units of at most n entries
Units(n) ==
    UNION {{u \in {[len |-> len, die |-> ds] : ds \in DieSeqs(len, len)} : WellFormed(u)} :
           len \in 1..n}

\* a CType instance: its class, its DIE, of (CPointer, CArray, CConst, CVolatile,
\* CTypedef; return_type of a CFunctionPtr), length (CArray), members (the types
\* of the args of a CFunctionPtr)
Instance(kind, die, of, length) ==
    [kind |-> kind, die |-> die, of |-> of, length |-> length, members |-> <<>>]

\* the constructor call: a new instance on the heap, which becomes the result
New(st, inst) == [st EXCEPT !.heap = Append(st.heap, inst), !.ret = Len(st.heap) + 1]

\* cache_ctype: ctype.die.cu.ctype_cache[ctype.die.offset] = ctype
cache_ctype(st, id) == [st EXCEPT !.cache = DictSet(st.cache, st.heap[id].die, id), !.ret = id]

\* (mutation) the aggregate is not in the cache while its members are resolved
cache_aggregate_late(st, id) == [st EXCEPT !.ret = id]

\* a struct or union is put in the cache as soon as it is built, before its members
cache_aggregate(st, id) == cache_ctype(st, id)

\* isinstance(of, CArray); CVoid (0) is not an instance
IsArray(st, id) == id # 0 /\ st.heap[id].kind = "CArray"

\* (mutation) the qualifier wraps whatever the inner type is
qualified_wraps_array(r, off, tag) ==
    IF tag = "const"
    THEN cache_ctype(New(r, Instance("CConst", off, r.ret, -1)), Len(r.heap) + 1)
    ELSE cache_ctype(New(r, Instance("CVolatile", off, r.ret, -1)), Len(r.heap) + 1)

\* const and volatile, once the inner type r.ret is resolved: a cv array is the
\* array itself, anything else is wrapped and cached
qualified(r, off, tag) ==
    IF IsArray(r, r.ret)
    THEN r
    ELSE IF tag = "const"
         THEN cache_ctype(New(r, Instance("CConst", off, r.ret, -1)), Len(r.heap) + 1)
         ELSE cache_ctype(New(r, Instance("CVolatile", off, r.ret, -1)), Len(r.heap) + 1)

RECURSIVE die_to_ctype(_, _, _, _)
RECURSIVE members(_, _, _, _, _, _)
RECURSIVE funclike_args(_, _, _, _, _, _)

\* die_get_at_type: the type DW_AT_type refers to, CVoid when there is none
die_get_at_type(u, st, type, fuel) ==
    IF type = 0 THEN [st EXCEPT !.ret = 0] ELSE die_to_ctype(u, st, type, fuel)

\* the loop over the DW_TAG_member children k.. of aggregate id: members[name] = type
members(u, st, off, id, k, fuel) ==
    IF k > Len(u.die[off].kids) \/ st.ovf
    THEN [st EXCEPT !.ret = id]
    ELSE LET r == die_get_at_type(u, st, u.die[off].kids[k], fuel) IN
         IF r.ovf THEN r
         ELSE members(u, [r EXCEPT !.heap[id].members = Append(@, r.ret)], off, id, k + 1, fuel)

\* die_to_funclike_args' loop over the DW_TAG_formal_parameter children k..: the
\* types of the parameters, in order; yields [st, args]
funclike_args(u, st, off, k, arg_types, fuel) ==
    IF k > Len(u.die[off].kids) \/ st.ovf
    THEN [st |-> st, args |-> arg_types]
    ELSE LET r == die_to_ctype(u, st, u.die[off].kids[k], fuel) IN
         funclike_args(u, r, off, k + 1, Append(arg_types, r.ret), fuel)

\* die_to_ctype(die) for the DIE at offset off; st is [heap, cache, ret, ovf]
die_to_ctype(u, st, off, fuel) ==
    LET d == u.die[off]
        id == Len(st.heap) + 1
    IN
    IF fuel = 0 THEN [st EXCEPT !.ovf = TRUE]
    ELSE IF off \in DOMAIN st.cache THEN [st EXCEPT !.ret = st.cache[off]]
    ELSE IF d.tag = "pointer"
    THEN LET r == die_get_at_type(u, st, d.type, fuel - 1) IN
         IF r.ovf THEN r
         ELSE IF d.type # 0 /\ u.die[d.type].tag = "subroutine" THEN r
         ELSE cache_ctype(New(r, Instance("CPointer", off, r.ret, -1)), Len(r.heap) + 1)
    ELSE IF d.tag = "array"
    THEN LET r == die_get_at_type(u, st, d.type, fuel - 1) IN
         IF r.ovf THEN r
         ELSE cache_ctype(New(r, Instance("CArray", off, r.ret, IF d.ub = -1 THEN -1 ELSE d.ub + 1)),
                          Len(r.heap) + 1)
    ELSE IF d.tag = "structure"
    THEN members(u, cache_aggregate(New(st, Instance("CStruct", off, -1, -1)), id), off, id, 1, fuel - 1)
    ELSE IF d.tag = "union"
    THEN members(u, cache_aggregate(New(st, Instance("CUnion", off, -1, -1)), id), off, id, 1, fuel - 1)
    ELSE IF d.tag = "enumeration"
    THEN cache_ctype(New(st, Instance("CEnum", off, -1, -1)), id)
    ELSE IF d.tag \in {"const", "volatile"}
    THEN LET r == die_get_at_type(u, st, d.type, fuel - 1) IN
         IF r.ovf THEN r ELSE qualified(r, off, d.tag)
    ELSE IF d.tag = "subroutine"
    THEN LET r == die_get_at_type(u, st, d.type, fuel - 1)
             a == funclike_args(u, r, off, 1, <<>>, fuel - 1)
         IN
         IF r.ovf THEN r
         ELSE IF a.st.ovf THEN a.st
         ELSE cache_ctype(New(a.st, [Instance("CFunctionPtr", off, r.ret, -1) EXCEPT !.members = a.args]),
                          Len(a.st.heap) + 1)
    ELSE IF d.tag = "base"
    THEN cache_ctype(New(st, Instance("CPrimitive", off, -1, -1)), id)
    ELSE \* typedef
         LET r == die_get_at_type(u, st, d.type, fuel - 1) IN
         IF r.ovf THEN r
         ELSE cache_ctype(New(r, Instance("CTypedef", off, r.ret, -1)), Len(r.heap) + 1)

\* a caller reconstructs the type of the entry at offset off
Reconstruct(off) ==
    /\ ~ovf
    /\ off \in 1..unit.len
    /\ LET r == die_to_ctype(unit, [heap |-> heap, cache |-> cache, ret |-> 0, ovf |-> FALSE],
                             off, MaxDepth)
       IN /\ heap' = r.heap
          /\ cache' = r.cache
          /\ results' = IF r.ovf THEN results ELSE DictSet(results, off, r.ret)
          /\ ovf' = r.ovf
    /\ UNCHANGED unit
    /\ OnlyType

InitType ==
    /\ unit \in Units(NumDies)
    /\ heap = <<>>
    /\ cache = <<>>
    /\ results = <<>>
    /\ ovf = FALSE
    /\ IdleCtx /\ IdleSym /\ IdleDiff /\ IdleMain /\ IdleFun

NextType == \E off \in 1..NumDies : Reconstruct(off)

SpecType == InitType /\ [][NextType]_vars

(***************************************************************************)
(* Claims about the type reconstructor                                     *)
(***************************************************************************)
\* instance id is the one the cache holds for its entry, which is what every later
\* die_to_ctype of that offset returns
Cached(id) == heap[id].die \in DOMAIN cache /\ cache[heap[id].die] = id

\* C5: within one unit at most one instance is ever created per offset, and every
\* reference made during a reconstruction (of, members) is to the instance a later
\* top-level reconstruction of that offset returns.
C5_OneInstancePerOffset ==
    /\ \A i, j \in DOMAIN heap : heap[i].die = heap[j].die => i = j
    /\ \A i \in DOMAIN heap :
          /\ heap[i].of >= 1 => Cached(heap[i].of)
          /\ \A k \in DOMAIN heap[i].members : heap[i].members[k] >= 1 => Cached(heap[i].members[k])

IsAggregate(id) == heap[id].kind \in {"CStruct", "CUnion"}

\* member k of the entry at offset off is a pointer to that entry
PointerToSelf(off, k) ==
    LET t == unit.die[off].kids[k] IN unit.die[t].tag = "pointer" /\ unit.die[t].type = off

\* C6: reconstructing a struct or union whose member refers back to it, directly or
\* through a pointer, terminates, and the member (its pointee) is the very instance
\* of the enclosing aggregate.
C6_SelfReferenceTerminates ==
    /\ ~ovf
    /\ \A s \in DOMAIN heap : IsAggregate(s) =>
          LET off == heap[s].die IN
          /\ Cached(s)
          /\ Len(heap[s].members) = Len(unit.die[off].kids)
          /\ \A k \in DOMAIN heap[s].members :
                LET m == heap[s].members[k] IN
                /\ unit.die[off].kids[k] = off => m = s
                /\ PointerToSelf(off, k) => (m >= 1 /\ heap[m].kind = "CPointer" /\ heap[m].of = s)

\* a struct or union with a pointer-to-self member has been reconstructed
C6_Witness ==
    \E s \in DOMAIN heap :
        /\ IsAggregate(s)
        /\ \E k \in DOMAIN heap[s].members : PointerToSelf(heap[s].die, k)

\* the offsets reconstructed at top level whose entry is const or volatile of an array
QualifiedArrays ==
    {c \in DOMAIN results :
        /\ unit.die[c].tag \in {"const", "volatile"}
        /\ unit.die[c].type # 0
        /\ unit.die[unit.die[c].type].tag = "array"}

NoQualifierWrapsArray ==
    \A i \in DOMAIN heap :
        heap[i].kind \in {"CConst", "CVolatile"} =>
            ~(heap[i].of >= 1 /\ heap[heap[i].of].kind = "CArray")

MaxSyms == 3

STB_LOCAL == 0
STT_OBJECT == 1
STT_FUNC == 2

\* the names the string table holds, and a name no record has
SymNames == {"f", "g"}
QueryNames == SymNames \cup {"h"}

\* st_info bytes, binding << 4 | type: local/global/weak x notype/object/func/section
StInfos == {0, 1, 2, 3, 16, 17, 18, 34}

SymRecords == [st_name : SymNames, st_info : StInfos]

RECURSIVE SymTabs(_)
SymTabs(n) ==
    IF n = 0 THEN {<<>>}
    ELSE SymTabs(n - 1) \cup {Append(t, r) : t \in {x \in SymTabs(n - 1) : Len(x) = n - 1}, r \in SymRecords}

\* the scan of the record buffer from record pos on: function and object records
\* set static[name] = (binding == STB_LOCAL), a later record replacing an earlier one
RECURSIVE scan(_, _, _)
scan(tab, pos, static) ==
    IF pos > Len(tab) THEN static
    ELSE LET st_info == tab[pos].st_info IN
         IF (st_info % 16) \in {STT_FUNC, STT_OBJECT}
         THEN scan(tab, pos + 1, DictSet(static, tab[pos].st_name, (st_info \div 16) = STB_LOCAL))
         ELSE scan(tab, pos + 1, static)

\* the try/except lookup: (True, cache[name]) or (False, False)
lookup_static(static, name) ==
    IF name \in DOMAIN static THEN <<TRUE, static[name]>> ELSE <<FALSE, FALSE>>

\* is_static(symtab, name): builds the cache on the first call
is_static(name) ==
    /\ LET static == IF has_static_cache THEN static_cache ELSE scan(symtab, 1, <<>>)
       IN /\ static_cache' = static
          /\ sret' = lookup_static(static, name)
    /\ has_static_cache' = TRUE
    /\ UNCHANGED symtab
    /\ OnlySym

InitSym ==
    /\ symtab \in SymTabs(MaxSyms)
    /\ has_static_cache = FALSE
    /\ static_cache = <<>>
    /\ sret = <<FALSE, FALSE>>
    /\ IdleCtx /\ IdleType /\ IdleDiff /\ IdleMain /\ IdleFun

NextSym == \E name \in QueryNames : is_static(name)

SpecSym == InitSym /\ [][NextSym]_vars

(***************************************************************************)
(* Claims about the symbol linkage table                                   *)
(***************************************************************************)
IsFuncOrObject(r) == (r.st_info % 16) \in {STT_FUNC, STT_OBJECT}

\* the orderings of the records of tab
Orderings(tab) ==
    {[i \in 1..Len(tab) |-> tab[p[i]]] :
        p \in {q \in [1..Len(tab) -> 1..Len(tab)] : \A i, j \in 1..Len(tab) : q[i] = q[j] => i = j}}

\* C8: classify reports as present exactly the names of the function and object
\* records (N names for N such records of distinct names) and none of the others,
\* and the (present, internal_linkage) answer for every name is the same for every
\* ordering of the records, also when two records share a name and differ in binding.
C8_ClassifyIndependentOfOrder ==
    has_static_cache =>
        /\ DOMAIN static_cache = {symtab[i].st_name : i \in {j \in 1..Len(symtab) : IsFuncOrObject(symtab[j])}}
        /\ \A t \in Orderings(symtab) : \A name \in QueryNames :
              lookup_static(scan(t, 1, <<>>), name) = lookup_static(static_cache, name)

(***************************************************************************)
(* Assembly Equivalence Pipeline (funcdiff.py, diff_objects)               *)
(***************************************************************************)
\* the number of sections in the disassembly of one object
MaxSections == 3

\* similarities are multiples of 1/Scale: 0 is 0.0 and Scale is 1.0
Scale == 2

FunctionNames == {"foo", "bar"}

\* one 'Disassembly of section .' chunk: whether its first line names a function
\* section (text.* or tcm_code*), and the name of the Function parsed from it
Sections == [code : {TRUE}, name : FunctionNames] \cup {[code |-> FALSE, name |-> "data"]}

RECURSIVE Dumps(_)
Dumps(n) ==
    IF n = 0 THEN {<<>>}
    ELSE Dumps(n - 1) \cup {Append(t, r) : t \in {x \in Dumps(n - 1) : Len(x) = n - 1}, r \in Sections}

\* what comparing a vendor function with the candidate's function of that name gives:
\* "equivalent" (Function.equivalent is true), or the similarity make_diff_table
\* returns for the pair
Outcomes == {[equivalent |-> TRUE, ratio |-> Scale]} \cup [equivalent : {FALSE}, ratio : 0..Scale]

\* is_funcion_section
is_funcion_section(sec) == sec.code

\* the loop filling vendor_funcs / re_funcs: the names of the function sections in
\* dictionary order (a name seen again keeps its first place)
RECURSIVE collect_funcs(_, _, _)
collect_funcs(secs, i, names) ==
    IF i > Len(secs) THEN names
    ELSE IF ~is_funcion_section(secs[i]) \/ (\E k \in DOMAIN names : names[k] = secs[i].name)
         THEN collect_funcs(secs, i + 1, names)
         ELSE collect_funcs(secs, i + 1, Append(names, secs[i].name))

Has(names, n) == \E k \in DOMAIN names : names[k] = n

\* (mutation) similarity starts at 1, so a missing function counts as equal
func_similarity_missing_is_one(func_name, re_funcs, out) ==
    IF ~Has(re_funcs, func_name) THEN Scale
    ELSE IF out[func_name].equivalent THEN Scale
    ELSE out[func_name].ratio

\* the body of the loop over the vendor functions: the similarity of one function
func_similarity(func_name, re_funcs, out) ==
    IF ~Has(re_funcs, func_name) THEN 0
    ELSE IF out[func_name].equivalent THEN Scale
    ELSE out[func_name].ratio

RECURSIVE sum(_)
sum(xs) == IF xs = <<>> THEN 0 ELSE Head(xs) + sum(Tail(xs))

RECURSIVE gcd(_, _)
gcd(a, b) == IF b = 0 THEN a ELSE gcd(b, a % b)

\* the number num / den, in lowest terms
Frac(num, den) == [num |-> num \div gcd(num, den), den |-> den \div gcd(num, den)]

\* the value returned: (sum(similarities) / len(similarities)) if similarities else 1,
\* and all(s == 1 for s in similarities)
diff_result(similarities) ==
    [mean_similarity |-> IF similarities # <<>>
                         THEN Frac(sum(similarities), Scale * Len(similarities))
                         ELSE Frac(1, 1),
     all_equivalent |-> \A k \in DOMAIN similarities : similarities[k] = Scale]

\* diff_objects on the two disassemblies
diff_objects(vsecs, rsecs, out) ==
    LET vendor_funcs == collect_funcs(vsecs, 1, <<>>)
        re_funcs == collect_funcs(rsecs, 1, <<>>)
        similarities == [i \in DOMAIN vendor_funcs |-> func_similarity(vendor_funcs[i], re_funcs, out)]
    IN diff_result(similarities)

DiffObjects ==
    /\ dres = <<>>
    /\ dres' = <<diff_objects(vendor_sections, re_sections, outcome)>>
    /\ UNCHANGED <<vendor_sections, re_sections, outcome>>
    /\ OnlyDiff

InitDiff ==
    /\ vendor_sections \in Dumps(MaxSections)
    /\ re_sections \in Dumps(MaxSections)
    /\ outcome \in [FunctionNames -> Outcomes]
    \* only a function both objects have is compared
    /\ \A n \in FunctionNames :
          (Has(collect_funcs(vendor_sections, 1, <<>>), n) /\ Has(collect_funcs(re_sections, 1, <<>>), n))
              \/ outcome[n].equivalent
    /\ dres = <<>>
    /\ IdleCtx /\ IdleType /\ IdleSym /\ IdleMain /\ IdleFun

NextDiff == DiffObjects

SpecDiff == InitDiff /\ [][NextDiff]_vars

(***************************************************************************)
(* Claims about the assembly equivalence pipeline                          *)
(***************************************************************************)
\* the names of the functions a disassembly defines
FuncSet(secs) == {secs[i].name : i \in {j \in DOMAIN secs : secs[j].code}}

\* the similarity the specification gives a vendor function: missing 0,
\* equivalent 1, different the renderer's ratio
SpecSimilarity(n) ==
    IF n \notin FuncSet(re_sections) THEN 0
    ELSE IF outcome[n].equivalent THEN Scale
    ELSE outcome[n].ratio

RECURSIVE SetSum(_)
SetSum(S) == IF S = {} THEN 0 ELSE LET x == CHOOSE y \in S : TRUE IN SpecSimilarity(x) + SetSum(S \ {x})

\* the candidate's disassembly without the functions only the candidate has
WithoutCandidateOnly ==
    SelectSeq(re_sections, LAMBDA sec : ~sec.code \/ sec.name \in FuncSet(vendor_sections))

\* C9: mean_similarity is the arithmetic mean of the per-vendor-function similarities
\* (1 when there is none), all_equivalent holds exactly when each is 1; no vendor
\* function or all equivalent give (1, true); one missing among otherwise equivalent
\* ones gives all_equivalent false and a mean below 1; functions only the candidate
\* has change nothing.
C9_MeanAndAllEquivalent ==
    dres # <<>> =>
        LET V == FuncSet(vendor_sections)
            res == dres[1]
            m == res.mean_similarity
            missing == {n \in V : n \notin FuncSet(re_sections)}
        IN /\ m.den > 0
           /\ V # {} => m.num * Scale * Cardinality(V) = m.den * SetSum(V)
           /\ V = {} => (m.num = m.den /\ res.all_equivalent)
           /\ res.all_equivalent <=> (\A n \in V : SpecSimilarity(n) = Scale)
           /\ (\A n \in V : n \in FuncSet(re_sections) /\ outcome[n].equivalent)
                 => (m.num = m.den /\ res.all_equivalent)
           /\ (Cardinality(missing) = 1 /\ \A n \in V \ missing : outcome[n].equivalent)
                 => (~res.all_equivalent /\ m.num < m.den)
           /\ res = diff_objects(vendor_sections, WithoutCandidateOnly, outcome)

\* Scenario A has been compared: the vendor defines foo and bar, the candidate an
\* equivalent foo only, and the answer is (1/2, false)
C9_Witness ==
    /\ dres # <<>>
    /\ FuncSet(vendor_sections) = {"foo", "bar"}
    /\ FuncSet(re_sections) = {"foo"}
    /\ outcome["foo"].equivalent
    /\ dres = <<[mean_similarity |-> [num |-> 1, den |-> 2], all_equivalent |-> FALSE]>>

(***************************************************************************)
(* Report driver (funcdiff.py, main)                                       *)
(***************************************************************************)
\* the number of positional arguments, libraries, and objects of a library or
\* of the reference directory
MaxArgs == 3
MaxLibs == 2
MaxObjs == 2

RECURSIVE SeqsUpTo(_, _)
SeqsUpTo(S, n) ==
    IF n = 0 THEN {<<>>}
    ELSE SeqsUpTo(S, n - 1) \cup {Append(t, x) : t \in {y \in SeqsUpTo(S, n - 1) : Len(y) = n - 1}, x \in S}

\* one object to compare: whether its build succeeds (returncode == 0) and whether
\* the compiler wrote to stderr
Objects == [built : BOOLEAN, stderr : BOOLEAN]

\* a command line and its surroundings: -d given or not, for each positional
\* argument whether it is a directory (patterns are not), whether a report file
\* exists already, and the work found: the libraries' objects, or the *.o files
\* of the first directory
CommandLines(nargs, nlibs, nobjs) ==
    {a \in [diff_objects : BOOLEAN, patterns_or_dirs : SeqsUpTo(BOOLEAN, nargs),
            old_report : BOOLEAN,
            libs : SeqsUpTo(SeqsUpTo(Objects, nobjs), nlibs),
            objs : SeqsUpTo({[built |-> TRUE, stderr |-> FALSE]}, nobjs)] :
        IF a.diff_objects
        THEN a.libs = <<>>
        ELSE a.objs = <<>> /\ \A i \in DOMAIN a.patterns_or_dirs : ~a.patterns_or_dirs[i]}

\* the report file before the run
InitialFile(a) == [exists |-> a.old_report, data |-> IF a.old_report THEN <<"old report">> ELSE <<>>]

\* html.write(text)
write(f, text) == [f EXCEPT !.data = Append(@, text)]

\* html = open(args.output, 'w'): the file is created or truncated
OpenOutput ==
    /\ pc = "start"
    /\ out_open' = TRUE
    /\ out_file' = [exists |-> TRUE, data |-> <<>>]
    /\ pc' = "opened"
    /\ UNCHANGED <<args, todo>>
    /\ OnlyMain

\* html.write(HTML_HEADER)
WriteHeader ==
    /\ pc = "opened"
    /\ out_file' = write(out_file, "HTML_HEADER")
    /\ pc' = "header"
    /\ UNCHANGED <<args, out_open, todo>>
    /\ OnlyMain

\* if args.diff_objects: the argument checks, then the article's opening
CheckDirs ==
    /\ pc = "header"
    /\ args.diff_objects
    /\ IF Len(args.patterns_or_dirs) # 2
       THEN pc' = "raised" /\ UNCHANGED <<out_file, todo>>       \* ValueError
       ELSE IF ~args.patterns_or_dirs[1]
       THEN pc' = "raised" /\ UNCHANGED <<out_file, todo>>       \* NotADirectoryError
       ELSE IF ~args.patterns_or_dirs[2]
       THEN pc' = "raised" /\ UNCHANGED <<out_file, todo>>       \* NotADirectoryError
       ELSE /\ out_file' = write(out_file, "<article>Directory diff")
            /\ todo' = args.objs
            /\ pc' = "dir_loop"
    /\ UNCHANGED <<args, out_open>>
    /\ OnlyMain

\* for a_obj_path in dir_a.glob('*.o'): diff_objects, two writes
DiffPair ==
    /\ pc = "dir_loop"
    /\ todo # <<>>
    /\ out_file' = write(write(out_file, "<details obj>"), "</details>")
    /\ todo' = Tail(todo)
    /\ UNCHANGED <<pc, args, out_open>>
    /\ OnlyMain

\* html.write('</article>') after the loop
EndDirs ==
    /\ pc = "dir_loop"
    /\ todo = <<>>
    /\ out_file' = write(out_file, "</article>")
    /\ pc' = "footer"
    /\ UNCHANGED <<args, out_open, todo>>
    /\ OnlyMain

\* else: the build-and-compare mode enters the temporary directory
StartBuild ==
    /\ pc = "header"
    /\ ~args.diff_objects
    /\ todo' = args.libs
    /\ pc' = "libs"
    /\ UNCHANGED <<args, out_file, out_open>>
    /\ OnlyMain

\* for lib in LIBRARIES: the article's opening
StartLib ==
    /\ pc = "libs"
    /\ todo # <<>>
    /\ out_file' = write(out_file, "<article>lib")
    /\ pc' = "objs"
    /\ UNCHANGED <<args, out_open, todo>>
    /\ OnlyMain

\* for vendorobj_path in lib.get_vendorobj_paths(patterns): build, compare or mark
\* failed, the captured stderr, the closing tag
BuildAndDiff ==
    /\ pc = "objs"
    /\ Head(todo) # <<>>
    /\ LET obj == Head(Head(todo))
           f1 == write(out_file, IF obj.built THEN "<details obj>" ELSE "<details obj failed>")
           f2 == IF obj.stderr THEN write(f1, "<pre>stderr</pre>") ELSE f1
       IN out_file' = write(f2, "</details>")
    /\ todo' = <<Tail(Head(todo))>> \o Tail(todo)
    /\ UNCHANGED <<pc, args, out_open>>
    /\ OnlyMain

\* html.write('</article>') after a library's objects
EndLib ==
    /\ pc = "objs"
    /\ Head(todo) = <<>>
    /\ out_file' = write(out_file, "</article>")
    /\ todo' = Tail(todo)
    /\ pc' = "libs"
    /\ UNCHANGED <<args, out_open>>
    /\ OnlyMain

\* the loop over the libraries is over
EndLibs ==
    /\ pc = "libs"
    /\ todo = <<>>
    /\ pc' = "footer"
    /\ UNCHANGED <<args, out_file, out_open, todo>>
    /\ OnlyMain

\* html.write(HTML_FOOTER)
WriteFooter ==
    /\ pc = "footer"
    /\ out_file' = write(out_file, "HTML_FOOTER")
    /\ pc' = "done"
    /\ UNCHANGED <<args, out_open, todo>>
    /\ OnlyMain

InitMain ==
    /\ args \in CommandLines(MaxArgs, MaxLibs, MaxObjs)
    /\ pc = "start"
    /\ out_file = InitialFile(args)
    /\ out_open = FALSE
    /\ todo = <<>>
    /\ IdleCtx /\ IdleType /\ IdleSym /\ IdleDiff /\ IdleFun

NextMain ==
    \/ OpenOutput
    \/ WriteHeader
    \/ CheckDirs
    \/ DiffPair
    \/ EndDirs
    \/ StartBuild
    \/ StartLib
    \/ BuildAndDiff
    \/ EndLib
    \/ EndLibs
    \/ WriteFooter

SpecMain == InitMain /\ [][NextMain]_vars

(***************************************************************************)
(* Claims about the report driver                                          *)
(***************************************************************************)
\* C10: in direct-pair mode an argument error (argument count other than two, a path
\* that is not a directory) aborts the run before any work starts: when the error
\* is raised no report output has been opened, truncated or written.
C10_ArgumentErrorBeforeOutput ==
    pc = "raised" => (~out_open /\ out_file = InitialFile(args))

(***************************************************************************)
(* Function signatures (headerdiff.py, die_to_funclike_args)               *)
(***************************************************************************)
\* the number of children of a function entry
MaxChildren == 3

ParamNames == {"a", "b"}

\* the offsets a DW_AT_type of a parameter or of the function entry refers to
TypeRefs == {1, 2}

\* a child of a function entry: its tag, its DW_AT_name (<<>>: no such attribute,
\* <<n>>: the name n) and its DW_AT_type
Child(tag, name, type) == [tag |-> tag, name |-> name, type |-> type]

\* the children met: formal parameters with or without a name, the variadic
\* marker, a local variable (a kind the loop skips) and a member (a kind it rejects)
Children ==
    {Child("DW_TAG_formal_parameter", name, type) :
        name \in {<<>>} \cup {<<n>> : n \in ParamNames}, type \in TypeRefs}
    \cup {Child(tag, <<>>, 0) :
        tag \in {"DW_TAG_unspecified_parameters", "DW_TAG_variable", "DW_TAG_member"}}

RECURSIVE ChildSeqs(_)
ChildSeqs(n) ==
    IF n = 0 THEN {<<>>}
    ELSE LET shorter == ChildSeqs(n - 1) IN
         shorter \cup {Append(cs, c) : cs \in {x \in shorter : Len(x) = n - 1}, c \in Children}

\* the function entries: a subprogram, a subroutine type or (wrongly) a variable,
\* with or without a DW_AT_name, DW_AT_type ret (0: none) and at most n children
FunctionDies(n) ==
    [tag : {"DW_TAG_subprogram", "DW_TAG_subroutine_type", "DW_TAG_variable"},
     named : BOOLEAN, ret : {0, 1}, children : ChildSeqs(n)]

\* the type die_to_ctype gives for the entry at offset off
CTypeAt(off) == [kind |-> "ctype", die |-> off]
CVoid == [kind |-> "CVoid", die |-> 0]
CEllipsis == [kind |-> "CEllipsis", die |-> 0]

\* the tags of children the loop passes over
Skipped(tag) == tag \in {"DW_TAG_variable", "DW_TAG_inlined_subroutine", "DW_TAG_lexical_block",
                         "DW_TAG_subprogram", "DW_TAG_label"}

\* arg_die.attributes['DW_AT_name'].value.decode() if 'DW_AT_name' in die.attributes
\* else None: the test looks at the function entry die, the subscript at the child;
\* yields [raised, name]
arg_name(die, arg_die) ==
    IF die.named
    THEN IF arg_die.name = <<>>
         THEN [raised |-> TRUE, name |-> <<>>]
         ELSE [raised |-> FALSE, name |-> arg_die.name]
    ELSE [raised |-> FALSE, name |-> <<>>]

\* an entry of args: (type, name)
Arg(type, name) == [type |-> type, name |-> name]

\* what the call did: it returned (return_type, args) or it raised
Returned(return_type, arg_list) == [status |-> "ok", return_type |-> return_type, args |-> arg_list]
Raised(error) == [status |-> error, return_type |-> CVoid, args |-> <<>>]

\* the loop over die.iter_children(), from child k on, args being arg_list so far
RECURSIVE funclike_children(_, _, _, _)
funclike_children(die, return_type, k, arg_list) ==
    IF k > Len(die.children) THEN Returned(return_type, arg_list)
    ELSE LET arg_die == die.children[k] IN
         IF arg_die.tag = "DW_TAG_formal_parameter"
         THEN LET n == arg_name(die, arg_die) IN
              IF n.raised THEN Raised("KeyError")
              ELSE funclike_children(die, return_type, k + 1,
                                     Append(arg_list, Arg(CTypeAt(arg_die.type), n.name)))
         ELSE IF arg_die.tag = "DW_TAG_unspecified_parameters"
         THEN funclike_children(die, return_type, k + 1, Append(arg_list, Arg(CEllipsis, <<>>)))
         ELSE IF Skipped(arg_die.tag)
         THEN funclike_children(die, return_type, k + 1, arg_list)
         ELSE Raised("TypeError")

\* die_to_funclike_args(die)
funclike(die) ==
    IF die.tag \notin {"DW_TAG_subroutine_type", "DW_TAG_subprogram"}
    THEN Raised("ValueError")
    ELSE funclike_children(die, IF die.ret = 0 THEN CVoid ELSE CTypeAt(die.ret), 1, <<>>)

\* a caller reconstructs the signature of the function entry
die_to_funclike_args ==
    /\ fres = <<>>
    /\ fres' = <<funclike(fdie)>>
    /\ UNCHANGED fdie
    /\ OnlyFun

InitFun ==
    /\ fdie \in FunctionDies(MaxChildren)
    /\ fres = <<>>
    /\ IdleCtx /\ IdleType /\ IdleSym /\ IdleDiff /\ IdleMain

NextFun == die_to_funclike_args

SpecFun == InitFun /\ [][NextFun]_vars

(***************************************************************************)
(* Claims about function signatures                                        *)
(***************************************************************************)
IsParam(c) == c.tag = "DW_TAG_formal_parameter"

\* the parameters the children stand for, in child order: each formal parameter
\* under its own name (absent when it has none), the variadic marker as an ellipsis
RECURSIVE OwnNameArgs(_)
OwnNameArgs(cs) ==
    IF cs = <<>> THEN <<>>
    ELSE LET c == Head(cs)
             rest == OwnNameArgs(Tail(cs))
         IN IF IsParam(c) THEN <<Arg(CTypeAt(c.type), c.name)>> \o rest
            ELSE IF c.tag = "DW_TAG_unspecified_parameters" THEN <<Arg(CEllipsis, <<>>)>> \o rest
            ELSE rest

\* a subprogram or subroutine type none of whose children is of a rejected kind
Reconstructible(die) ==
    /\ die.tag \in {"DW_TAG_subroutine_type", "DW_TAG_subprogram"}
    /\ \A k \in DOMAIN die.children : die.children[k].tag # "DW_TAG_member"

\* C11: reconstructing a function signature (subprogram or function-pointer type)
\* succeeds whether or not its parameters are named, and each formal-parameter
\* child contributes one parameter, in child order, recorded under the child's own
\* name when the child has one and without a name otherwise, whether or not the
\* function entry itself has a name.
C11_ParameterNamesAreTheChildrens ==
    (fres # <<>> /\ Reconstructible(fdie))
        => /\ fres[1].status = "ok"
           /\ fres[1].args = OwnNameArgs(fdie.children)

====
